---- MODULE Spec2Model ----
(***************************************************************************)
(* Model of the custom LLM agent of custom_llm_agent.ipynb: the prompt     *)
(* template CustomPromptTemplate.format, the output parser                 *)
(* CustomOutputParser.parse, and the AgentExecutor loop the notebook       *)
(* describes.  A Python str is a sequence of one-character strings.        *)
(***************************************************************************)
EXTENDS Integers, Sequences, FiniteSets, TLC

VARIABLES
    self,         \* the CustomPromptTemplate object: its template and tools
    kwargs,       \* the keyword arguments of format, as format leaves them
    rendered,     \* what format returned or raised
    llm_output,   \* the text handed to CustomOutputParser.parse
    result,       \* what parse returned or raised
    sample,       \* how the input under test was put together (test input)
    inputs,       \* the inputs of the run: the question, the memory string
    intermediate_steps, \* the (AgentAction, observation) pairs of the run
    turns,        \* per tool call of the run, the model's text and the observation
    tool_calls,   \* the number of tool calls of the run
    locals,       \* the local variables of the format calls in progress
    pc            \* position of the process

vars == <<self, kwargs, rendered, llm_output, result, sample, inputs,
          intermediate_steps, turns, tool_calls, locals, pc>>

loopVars == <<inputs, intermediate_steps, turns, tool_calls>>

(***************************************************************************)
(* Bounds of the model.                                                    *)
(***************************************************************************)
MaxChunks == 4
MaxPairs == 2
MaxParts == 2
MaxTools == 2
MaxSteps == 3
MaxLayers == 2
MaxPad == 2
MaxRuns == 2

(***************************************************************************)
(* Python str primitives.                                                  *)
(***************************************************************************)
\* str.isspace / the regular expression class \s, over the characters used
Whitespace == {" ", "\t", "\n", "\r"}

\* the regular expression class \d
Digits == {"0", "1", "2", "3", "4", "5", "6", "7", "8", "9"}

\* s[i-1:].startswith(lit), with 1-based i
StartsWithAt(s, i, lit) ==
    /\ i + Len(lit) - 1 <= Len(s)
    /\ \A k \in 1..Len(lit) : s[i + k - 1] = lit[k]

\* s.find(sub, from-1) + 1: the first occurrence at or after from, 0 when none
RECURSIVE Find(_, _, _)
Find(s, sub, from) ==
    IF from + Len(sub) - 1 > Len(s) THEN 0
    ELSE IF StartsWithAt(s, from, sub) THEN from
    ELSE Find(s, sub, from + 1)

\* sub in s
Contains(s, sub) == Find(s, sub, 1) # 0

\* s.split(sep): the pieces between the non-overlapping occurrences of sep,
\* scanned left to right
RECURSIVE SplitFrom(_, _, _)
SplitFrom(s, sep, i) ==
    LET j == Find(s, sep, i)
    IN  IF j = 0 THEN <<SubSeq(s, i, Len(s))>>
        ELSE <<SubSeq(s, i, j - 1)>> \o SplitFrom(s, sep, j + Len(sep))

Split(s, sep) == SplitFrom(s, sep, 1)

\* the first index at or after i whose character is outside chars
\* (Len(s) + 1 when there is none): a greedy chars* of a regular expression
RECURSIVE SkipClass(_, _, _)
SkipClass(s, i, chars) ==
    IF i > Len(s) \/ s[i] \notin chars THEN i
    ELSE SkipClass(s, i + 1, chars)

\* the last index at or before i whose character is outside chars (0 if none)
RECURSIVE SkipClassBack(_, _, _)
SkipClassBack(s, i, chars) ==
    IF i < 1 \/ s[i] \notin chars THEN i
    ELSE SkipClassBack(s, i - 1, chars)

\* s.strip(chars): every leading and every trailing character of chars removed
StripChars(s, chars) ==
    SubSeq(s, SkipClass(s, 1, chars), SkipClassBack(s, Len(s), chars))

\* the characters of s
Chars(s) == { s[i] : i \in 1..Len(s) }

\* s.strip()
Strip(s) == StripChars(s, Whitespace)

(***************************************************************************)
(* Literals of the parser.                                                 *)
(***************************************************************************)
FinalAnswerMarker == <<"F","i","n","a","l"," ","A","n","s","w","e","r",":">>

ActionToken == <<"A","c","t","i","o","n">>

InputToken == <<"I","n","p","u","t">>

\* the grave accent character (a string of the module cannot hold it)
Backtick == "GRAVE"

CouldNotParse ==
    <<"C","o","u","l","d"," ","n","o","t"," ","p","a","r","s","e"," ",
      "L","L","M"," ","o","u","t","p","u","t",":"," ",Backtick>>

(***************************************************************************)
(* re.search(regex, llm_output, re.DOTALL), the regex being, token by      *)
(* token:  Action \s* \d* \s* :  GROUP1  \n Action \s* \d* \s* Input       *)
(* \s* \d* \s* :  [\s]*  GROUP2, with GROUP1 a lazy any-characters and      *)
(* GROUP2 a greedy any-characters.                                         *)
(* A greedy \s* \d* \s* before a literal that starts with neither a space  *)
(* nor a digit matches in one way only, so giving characters back never    *)
(* helps; the lazy group stops at the first place the rest matches; the    *)
(* greedy group runs to the end of the string, newlines included.          *)
(***************************************************************************)
\* mutant: the pattern without its digit classes
NumberSuffixEnd_NoDigits(s, i) == SkipClass(s, i, Whitespace)

\* the run of spaces, digits, spaces from i: the index after it
NumberSuffixEnd(s, i) ==
    SkipClass(s, SkipClass(s, SkipClass(s, i, Whitespace), Digits), Whitespace)

\* Action, number suffix, colon at i: the index after the colon, 0 when it does not match
ActionHeaderEnd(s, i) ==
    IF ~StartsWithAt(s, i, ActionToken) THEN 0
    ELSE LET c == NumberSuffixEnd(s, i + Len(ActionToken))
         IN  IF c <= Len(s) /\ s[c] = ":" THEN c + 1 ELSE 0

\* newline, Action, number suffix, Input, number suffix, colon at j: the
\* index after the colon, 0 when
\* it does not match
InputHeaderEnd(s, j) ==
    IF ~StartsWithAt(s, j, <<"\n">> \o ActionToken) THEN 0
    ELSE LET c == NumberSuffixEnd(s, j + 1 + Len(ActionToken))
         IN  IF ~StartsWithAt(s, c, InputToken) THEN 0
             ELSE LET f == NumberSuffixEnd(s, c + Len(InputToken))
                  IN  IF f <= Len(s) /\ s[f] = ":" THEN f + 1 ELSE 0

\* the first j at or after i where the input header matches, 0 when none
RECURSIVE FirstInputHeader(_, _)
FirstInputHeader(s, i) ==
    IF i > Len(s) THEN 0
    ELSE IF InputHeaderEnd(s, i) # 0 THEN i
    ELSE FirstInputHeader(s, i + 1)

NoMatch == [start |-> 0, group1 |-> <<>>, group2 |-> <<>>]

\* mutant: the search without re.DOTALL, the groups stopping at a newline
MatchAt_NoDotAll(s, i) ==
    LET e1 == ActionHeaderEnd(s, i)
    IN  IF e1 = 0 THEN NoMatch
        ELSE LET j == SkipClass(s, e1, Chars(s) \ {"\n"})
             IN  IF j > Len(s) \/ InputHeaderEnd(s, j) = 0 THEN NoMatch
                 ELSE LET e3 == SkipClass(s, InputHeaderEnd(s, j), Whitespace)
                      IN  [start |-> i,
                           group1 |-> SubSeq(s, e1, j - 1),
                           group2 |-> SubSeq(s, e3,
                                             SkipClass(s, e3, Chars(s) \ {"\n"}) - 1)]

\* the match that starts at i, NoMatch when there is none
MatchAt(s, i) ==
    LET e1 == ActionHeaderEnd(s, i)
    IN  IF e1 = 0 THEN NoMatch
        ELSE LET j == FirstInputHeader(s, e1)
             IN  IF j = 0 THEN NoMatch
                 ELSE LET e3 == SkipClass(s, InputHeaderEnd(s, j), Whitespace)
                      IN  [start |-> i,
                           group1 |-> SubSeq(s, e1, j - 1),
                           group2 |-> SubSeq(s, e3, Len(s))]

\* the leftmost match
RECURSIVE SearchFrom(_, _)
SearchFrom(s, i) ==
    IF i > Len(s) THEN NoMatch
    ELSE IF MatchAt(s, i) # NoMatch THEN MatchAt(s, i)
    ELSE SearchFrom(s, i + 1)

re_search(s) == SearchFrom(s, 1)

(***************************************************************************)
(* CustomOutputParser.parse                                                *)
(***************************************************************************)
AgentFinish(output, log) ==
    [type |-> "AgentFinish", return_values |-> [output |-> output], log |-> log]

AgentAction(tool, tool_input, log) ==
    [type |-> "AgentAction", tool |-> tool, tool_input |-> tool_input, log |-> log]

ValueError(message) == [type |-> "ValueError", message |-> message]

\* mutant: the marker's first occurrence taken, split(...)[1]
FinalOutput_FirstMarker(text) ==
    LET pieces == Split(text, FinalAnswerMarker)
    IN  Strip(pieces[2])

\* llm_output.split("Final Answer:")[-1].strip()
FinalOutput(text) ==
    LET pieces == Split(text, FinalAnswerMarker)
    IN  Strip(pieces[Len(pieces)])

\* mutant: leading spaces and one quote at each end removed, no more
ToolInput_OneLayer(action_input) ==
    LET s1 == SubSeq(action_input, SkipClass(action_input, 1, {" "}), Len(action_input))
        s2 == IF s1 # <<>> /\ s1[1] = "\"" THEN Tail(s1) ELSE s1
    IN  IF s2 # <<>> /\ s2[Len(s2)] = "\"" THEN SubSeq(s2, 1, Len(s2) - 1) ELSE s2

\* action_input.strip(" ").strip('"')
ToolInput(action_input) ==
    StripChars(StripChars(action_input, {" "}), {"\""})

\* mutant: the error raised without the text
ParseAction_BareError(text) ==
    LET match == re_search(text)
    IN  IF match = NoMatch
        THEN ValueError(CouldNotParse \o <<Backtick>>)
        ELSE AgentAction(Strip(match.group1), ToolInput(match.group2), text)

\* the action branch of parse
ParseAction(text) ==
    LET match == re_search(text)
    IN  IF match = NoMatch
        THEN ValueError(CouldNotParse \o text \o <<Backtick>>)
        ELSE LET action == Strip(match.group1)
                 action_input == match.group2
             IN  AgentAction(action, ToolInput(action_input), text)

\* mutant: the action pattern tried before the finish check
parse_ActionFirst(text) ==
    IF re_search(text) # NoMatch THEN ParseAction(text)
    ELSE IF Contains(text, FinalAnswerMarker)
    THEN AgentFinish(FinalOutput(text), text)
    ELSE ParseAction(text)

parse(text) ==
    IF Contains(text, FinalAnswerMarker)
    THEN AgentFinish(FinalOutput(text), text)
    ELSE ParseAction(text)

(***************************************************************************)
(* The prompt templates and the tools of the notebook.                     *)
(***************************************************************************)
TemplateHead ==
    <<"A","n","s","w","e","r"," ","t","h","e"," ","f","o","l",
      "l","o","w","i","n","g"," ","q","u","e","s","t","i","o",
      "n","s"," ","a","s"," ","b","e","s","t"," ","y","o","u",
      " ","c","a","n",","," ","b","u","t"," ","s","p","e","a",
      "k","i","n","g"," ","a","s"," ","a"," ","p","i","r","a",
      "t","e"," ","m","i","g","h","t"," ","s","p","e","a","k",
      "."," ","Y","o","u"," ","h","a","v","e"," ","a","c","c",
      "e","s","s"," ","t","o"," ","t","h","e"," ","f","o","l",
      "l","o","w","i","n","g"," ","t","o","o","l","s",":","\n",
      "\n","{","t","o","o","l","s","}","\n","\n","U","s","e"," ",
      "t","h","e"," ","f","o","l","l","o","w","i","n","g"," ",
      "f","o","r","m","a","t",":","\n","\n","Q","u","e","s","t",
      "i","o","n",":"," ","t","h","e"," ","i","n","p","u","t",
      " ","q","u","e","s","t","i","o","n"," ","y","o","u"," ",
      "m","u","s","t"," ","a","n","s","w","e","r","\n","T","h",
      "o","u","g","h","t",":"," ","y","o","u"," ","s","h","o",
      "u","l","d"," ","a","l","w","a","y","s"," ","t","h","i",
      "n","k"," ","a","b","o","u","t"," ","w","h","a","t"," ",
      "t","o"," ","d","o","\n","A","c","t","i","o","n",":"," ",
      "t","h","e"," ","a","c","t","i","o","n"," ","t","o"," ",
      "t","a","k","e",","," ","s","h","o","u","l","d"," ","b",
      "e"," ","o","n","e"," ","o","f"," ","[","{","t","o","o",
      "l","_","n","a","m","e","s","}","]","\n","A","c","t","i",
      "o","n"," ","I","n","p","u","t",":"," ","t","h","e"," ",
      "i","n","p","u","t"," ","t","o"," ","t","h","e"," ","a",
      "c","t","i","o","n","\n","O","b","s","e","r","v","a","t",
      "i","o","n",":"," ","t","h","e"," ","r","e","s","u","l",
      "t"," ","o","f"," ","t","h","e"," ","a","c","t","i","o",
      "n","\n",".",".","."," ","(","t","h","i","s"," ","T","h",
      "o","u","g","h","t","/","A","c","t","i","o","n","/","A",
      "c","t","i","o","n"," ","I","n","p","u","t","/","O","b",
      "s","e","r","v","a","t","i","o","n"," ","c","a","n"," ",
      "r","e","p","e","a","t"," ","N"," ","t","i","m","e","s",
      ")","\n","T","h","o","u","g","h","t",":"," ","I"," ","n",
      "o","w"," ","k","n","o","w"," ","t","h","e"," ","f","i",
      "n","a","l"," ","a","n","s","w","e","r","\n","F","i","n",
      "a","l"," ","A","n","s","w","e","r",":"," ","t","h","e",
      " ","f","i","n","a","l"," ","a","n","s","w","e","r"," ",
      "t","o"," ","t","h","e"," ","o","r","i","g","i","n","a",
      "l"," ","i","n","p","u","t"," ","q","u","e","s","t","i",
      "o","n","\n","\n","B","e","g","i","n","!"," ","R","e","m",
      "e","m","b","e","r"," ","t","o"," ","s","p","e","a","k",
      " ","a","s"," ","a"," ","p","i","r","a","t","e"," ","w",
      "h","e","n"," ","g","i","v","i","n","g"," ","y","o","u",
      "r"," ","f","i","n","a","l"," ","a","n","s","w","e","r",
      "."," ","U","s","e"," ","l","o","t","s"," ","o","f"," ",
      "\"","A","r","g","\"","s","\n","\n">>

\* mutant: the scratchpad placed before the question
template_ScratchpadFirst ==
    TemplateHead \o
    <<"{","a","g","e","n","t","_","s","c","r","a","t","c","h","p","a","d","}","\n",
      "Q","u","e","s","t","i","o","n",":"," ","{","i","n","p","u","t","}">>

template ==
    TemplateHead \o
    <<"Q","u","e","s","t","i","o","n",":"," ","{","i","n","p",
      "u","t","}","\n","{","a","g","e","n","t","_","s","c","r",
      "a","t","c","h","p","a","d","}">>

template_with_history ==
    TemplateHead \o
    <<"P","r","e","v","i","o","u","s"," ","c","o","n","v","e",
      "r","s","a","t","i","o","n"," ","h","i","s","t","o","r",
      "y",":","\n","{","h","i","s","t","o","r","y","}","\n","\n",
      "N","e","w"," ","q","u","e","s","t","i","o","n",":"," ",
      "{","i","n","p","u","t","}","\n","{","a","g","e","n","t",
      "_","s","c","r","a","t","c","h","p","a","d","}">>

SearchTool ==
    [name |-> <<"S","e","a","r","c","h">>,
     description |-> <<"u","s","e","f","u","l"," ","f","o","r"," ","w","h","e",
                       "n"," ","y","o","u"," ","n","e","e","d"," ","t","o"," ",
                       "a","n","s","w","e","r"," ","q","u","e","s","t","i","o",
                       "n","s"," ","a","b","o","u","t"," ","c","u","r","r","e",
                       "n","t"," ","e","v","e","n","t","s">>]

tools == <<SearchTool>>

prompt == [template |-> template, tools |-> tools]

prompt_with_history == [template |-> template_with_history, tools |-> tools]

(***************************************************************************)
(* CustomPromptTemplate.format                                             *)
(***************************************************************************)
\* the keys of the keyword arguments
K_intermediate_steps ==
    <<"i","n","t","e","r","m","e","d","i","a","t","e","_","s","t","e","p","s">>

K_agent_scratchpad ==
    <<"a","g","e","n","t","_","s","c","r","a","t","c","h","p","a","d">>

K_tools == <<"t","o","o","l","s">>

K_tool_names == <<"t","o","o","l","_","n","a","m","e","s">>

K_input == <<"i","n","p","u","t">>

K_history == <<"h","i","s","t","o","r","y">>

ObservationToken == <<"\n","O","b","s","e","r","v","a","t","i","o","n",":"," ">>

ThoughtToken == <<"\n","T","h","o","u","g","h","t",":"," ">>

Str(value) == [type |-> "str", value |-> value]

KeyError(key) == [type |-> "KeyError", key |-> key]

Min(S) == CHOOSE x \in S : \A y \in S : x <= y

\* the first index at or after i that holds ch, 0 when none
IndexOf(s, ch, i) ==
    LET at == { j \in i..Len(s) : s[j] = ch }
    IN  IF at = {} THEN 0 ELSE Min(at)

\* mutant: a missing key rendered as the empty string
RECURSIVE str_format_Lenient(_, _, _)
str_format_Lenient(t, i, kw) ==
    LET open == IndexOf(t, "{", i)
    IN  IF open = 0 THEN Str(SubSeq(t, i, Len(t)))
        ELSE LET close == IndexOf(t, "}", open)
                 name == SubSeq(t, open + 1, close - 1)
                 rest == str_format_Lenient(t, close + 1, kw)
             IN  Str(SubSeq(t, i, open - 1)
                     \o (IF name \in DOMAIN kw THEN kw[name] ELSE <<>>)
                     \o rest.value)

\* t[i-1:].format(**kw) for a template whose braces are named fields: each
\* {name} replaced by kw[name], KeyError at the first name kw does not hold
RECURSIVE str_format(_, _, _)
str_format(t, i, kw) ==
    LET open == IndexOf(t, "{", i)
    IN  IF open = 0 THEN Str(SubSeq(t, i, Len(t)))
        ELSE LET close == IndexOf(t, "}", open)
                 name == SubSeq(t, open + 1, close - 1)
             IN  IF name \notin DOMAIN kw THEN KeyError(name)
                 ELSE LET rest == str_format(t, close + 1, kw)
                      IN  IF rest.type = "KeyError" THEN rest
                          ELSE Str(SubSeq(t, i, open - 1) \o kw[name] \o rest.value)

\* mutant: the pieces joined last to first
RECURSIVE Join_Reversed(_, _)
Join_Reversed(sep, list) ==
    IF list = <<>> THEN <<>>
    ELSE IF Len(list) = 1 THEN list[1]
    ELSE Join_Reversed(sep, Tail(list)) \o sep \o Head(list)

\* sep.join(list)
RECURSIVE Join(_, _)
Join(sep, list) ==
    IF list = <<>> THEN <<>>
    ELSE IF Len(list) = 1 THEN list[1]
    ELSE Head(list) \o sep \o Join(sep, Tail(list))

\* mutant: thoughts assigned, not appended to
RECURSIVE Thoughts_Assigned(_, _)
Thoughts_Assigned(steps, thoughts) ==
    IF steps = <<>> THEN thoughts
    ELSE Thoughts_Assigned(Tail(steps),
                           Head(steps)[1].log
                           \o ObservationToken \o Head(steps)[2] \o ThoughtToken)

\* the loop over intermediate_steps: thoughts after the steps left to do
RECURSIVE Thoughts(_, _)
Thoughts(steps, thoughts) ==
    IF steps = <<>> THEN thoughts
    ELSE Thoughts(Tail(steps),
                  thoughts \o Head(steps)[1].log
                  \o ObservationToken \o Head(steps)[2] \o ThoughtToken)

\* "\n".join([f"{tool.name}: {tool.description}" for tool in self.tools])
ToolsListing(ts) ==
    Join(<<"\n">>, [i \in 1..Len(ts) |-> ts[i].name \o <<":"," ">> \o ts[i].description])

\* ", ".join([tool.name for tool in self.tools])
ToolNamesListing(ts) ==
    Join(<<","," ">>, [i \in 1..Len(ts) |-> ts[i].name])

\* kwargs after the pop and the three assignments of format
FormatKwargs(obj, kw) ==
    LET thoughts == Thoughts(kw[K_intermediate_steps], <<>>)
    IN  [k \in (DOMAIN kw \ {K_intermediate_steps})
               \cup {K_agent_scratchpad, K_tools, K_tool_names} |->
            IF k = K_agent_scratchpad THEN thoughts
            ELSE IF k = K_tools THEN ToolsListing(obj.tools)
            ELSE IF k = K_tool_names THEN ToolNamesListing(obj.tools)
            ELSE kw[k]]

format(obj, kw) ==
    IF K_intermediate_steps \notin DOMAIN kw THEN KeyError(K_intermediate_steps)
    ELSE str_format(obj.template, 1, FormatKwargs(obj, kw))

(***************************************************************************)
(* Texts the parser is run on.                                             *)
(***************************************************************************)
RECURSIVE Concat(_)
Concat(ss) == IF ss = <<>> THEN <<>> ELSE Head(ss) \o Concat(Tail(ss))

\* pieces a model output is assembled from, in any order
Chunks ==
    { ActionToken, <<":">>, <<"\n">> \o ActionToken \o <<" ">> \o InputToken,
      <<" ">>, <<"\n">>, <<"2">>, <<"\"">>, <<"x">>, FinalAnswerMarker }

IsFreeSample(sm) ==
    \E n \in 0..MaxChunks : \E c \in [1..n -> Chunks] :
        sm = [family |-> "free", chunks |-> c]

\* outputs in the shape the prompt asks for: a prefix, one or more
\* Action / Action Input pairs, a suffix
MarkerPrefix == FinalAnswerMarker \o <<" ","7","\n">>

MarkerSuffix == <<"\n">> \o FinalAnswerMarker \o <<" ","4","2","\n">>

Prefixes ==
    { <<>>, <<"T","h","o","u","g","h","t",":"," ","x","\n">>, MarkerPrefix }

Suffixes == { <<>>, <<"\n">>, MarkerSuffix }

Numbers == { <<>>, <<" ","2">> }

ToolNames == { <<"S","e","a","r","c","h">>, <<"L","o","o","k","u","p">> }

PlainInputs == { <<"f","o","o">>, <<"h","e","l","l","o"," ","w","o","r","l","d">> }

Quoted(v) == <<"\"">> \o v \o <<"\"">>

PairSpecs ==
    [num : Numbers, name : ToolNames, value : PlainInputs, quoted : BOOLEAN]

PairText(p) ==
    ActionToken \o p.num \o <<":"," ">> \o p.name \o <<"\n">>
    \o ActionToken \o <<" ">> \o InputToken \o p.num \o <<":"," ">>
    \o (IF p.quoted THEN Quoted(p.value) ELSE p.value)

RECURSIVE PairsText(_)
PairsText(ps) ==
    IF ps = <<>> THEN <<>>
    ELSE IF Len(ps) = 1 THEN PairText(ps[1])
    ELSE PairText(ps[1]) \o <<"\n">> \o PairsText(Tail(ps))

IsPairSample(sm) ==
    \E n \in 1..MaxPairs : \E ps \in [1..n -> PairSpecs] :
        \E pre \in Prefixes, suf \in Suffixes :
            sm = [family |-> "pairs", prefix |-> pre, pairs |-> ps, suffix |-> suf]

\* outputs whose Thought line mentions an action before the Action line
ThoughtPrefixes ==
    { <<"T","h","o","u","g","h","t",":"," ">> \o ActionToken \o <<":"," ","x","\n">>,
      <<"T","h","o","u","g","h","t",":"," ","a","n"," ">> \o ActionToken \o <<"\n">> }

IsThoughtSample(sm) ==
    \E p \in PairSpecs, pre \in ThoughtPrefixes, suf \in Suffixes \ {MarkerSuffix} :
        sm = [family |-> "thought", prefix |-> pre, pairs |-> <<p>>, suffix |-> suf]

\* outputs whose action input is padded with spaces and wrapped in quotes
Repeat(ch, n) == [k \in 1..n |-> ch]

InputBodies == { <<"f","o","o">>, <<" ","x"," ">> }

Trailers == { Repeat(" ", n) : n \in 0..MaxPad } \cup { <<"\n">> }

\* what follows the colon of the Action Input header
InputText(sm) ==
    Repeat(" ", sm.lead) \o Repeat("\"", sm.open) \o sm.body
    \o Repeat("\"", sm.close) \o sm.trail

IsInputSample(sm) ==
    \E lead \in 0..MaxPad, open \in 0..MaxLayers, close \in 0..MaxLayers :
        \E body \in InputBodies, trail \in Trailers :
            sm = [family |-> "input", lead |-> lead, open |-> open, body |-> body,
                  close |-> close, trail |-> trail]

SampleText(sm) ==
    IF sm.family = "free" THEN Concat(sm.chunks)
    ELSE IF sm.family = "input"
    THEN ActionToken \o <<":"," ","S","e","a","r","c","h","\n">>
         \o ActionToken \o <<" ">> \o InputToken \o <<":">> \o InputText(sm)
    ELSE sm.prefix \o PairsText(sm.pairs) \o sm.suffix

(***************************************************************************)
(* The parser run on one text.                                             *)
(***************************************************************************)
NoResult == [type |-> "none"]

NoKwargs == [k \in {} |-> <<>>]

\* the state of the loop when no run has been started
NoRun ==
    /\ inputs = NoKwargs
    /\ intermediate_steps = <<>>
    /\ turns = <<>>
    /\ tool_calls = 0

InitParse ==
    /\ \/ IsFreeSample(sample)
       \/ IsPairSample(sample)
       \/ IsThoughtSample(sample)
       \/ IsInputSample(sample)
    /\ llm_output = SampleText(sample)
    /\ result = NoResult
    /\ pc = "parse"
    /\ self = prompt
    /\ kwargs = NoKwargs
    /\ rendered = NoResult
    /\ locals = <<>>
    /\ NoRun

Parse ==
    /\ pc = "parse"
    /\ result' = parse(llm_output)
    /\ pc' = "parsed"
    /\ UNCHANGED <<self, kwargs, rendered, llm_output, sample, locals, loopVars>>

NextParse == Parse

SpecParse == InitParse /\ [][NextParse]_vars

(***************************************************************************)
(* The renderer run on one template, tool list and set of arguments.       *)
(***************************************************************************)
Field(key) == <<"{">> \o key \o <<"}">>

TemplateParts ==
    { Field(K_tools), Field(K_tool_names), Field(K_input), Field(K_history),
      Field(K_agent_scratchpad), <<"Q",":"," ">> }

ToolPool ==
    { SearchTool,
      [name |-> <<"L","o","o","k","u","p">>, description |-> <<"f","a","c","t","s">>] }

Questions == { <<"w","h","o","?">> }

Memories == { <<"H","u","m","a","n",":"," ","h","i">> }

Observations == { <<"o","k">>, <<"n","o"," ","r","e","s","u","l","t">> }

\* a run history of one step
OneStep ==
    LET text == PairText([num |-> <<>>, name |-> <<"S","e","a","r","c","h">>,
                          value |-> <<"f","o","o">>, quoted |-> FALSE])
    IN  << <<parse(text), <<"o","k">>>> >>

\* the keyword arguments with the given keys left out
Without(kw, keys) == [k \in DOMAIN kw \ keys |-> kw[k]]

KwargsPool ==
    { Without([k \in {K_input, K_history, K_intermediate_steps} |->
                 IF k = K_input THEN q
                 ELSE IF k = K_history THEN m
                 ELSE steps], out)
      : q \in Questions, m \in Memories, steps \in {<<>>, OneStep},
        out \in SUBSET {K_input, K_history, K_intermediate_steps} }

InitRender ==
    /\ \E t \in {template, template_with_history}
              \cup UNION { { Concat(ps) : ps \in [1..n -> TemplateParts] }
                           : n \in 0..MaxParts } :
         \E n \in 0..MaxTools : \E ts \in [1..n -> ToolPool] :
            self = [template |-> t, tools |-> ts]
    /\ kwargs \in KwargsPool
    /\ sample = [family |-> "render", kwargs |-> kwargs]
    /\ rendered = NoResult
    /\ llm_output = <<>>
    /\ result = NoResult
    /\ locals = <<>>
    /\ NoRun
    /\ pc = "format"

Format ==
    /\ pc = "format"
    /\ rendered' = format(self, kwargs)
    /\ kwargs' = IF K_intermediate_steps \in DOMAIN kwargs
                 THEN FormatKwargs(self, kwargs) ELSE kwargs
    /\ pc' = "formatted"
    /\ UNCHANGED <<self, llm_output, result, sample, locals, loopVars>>

NextRender == Format

SpecRender == InitRender /\ [][NextRender]_vars

(***************************************************************************)
(* The AgentExecutor loop, as the notebook describes it: pass the input    *)
(* and the previous steps to the agent; an AgentFinish is returned to the  *)
(* user; an AgentAction is used to call a tool and get an observation;     *)
(* repeat with the AgentAction and the observation added.                  *)
(***************************************************************************)
\* the texts the model answers with
LLMOutputs ==
    { <<"T","h","o","u","g","h","t",":"," ","x","\n">>
        \o PairText([num |-> <<>>, name |-> <<"S","e","a","r","c","h">>,
                     value |-> <<"f","o","o">>, quoted |-> FALSE]),
      PairText([num |-> <<" ","2">>, name |-> <<"L","o","o","k","u","p">>,
                value |-> <<"h","e","l","l","o"," ","w","o","r","l","d">>,
                quoted |-> TRUE]),
      <<" ","I"," ","n","o","w"," ","k","n","o","w","\n">>
        \o FinalAnswerMarker \o <<" ","4","2">>,
      <<"I"," ","a","m"," ","t","h","i","n","k","i","n","g">> }

Init ==
    /\ self = prompt
    /\ kwargs = NoKwargs
    /\ rendered = NoResult
    /\ llm_output = <<>>
    /\ result = NoResult
    /\ sample = [family |-> "run"]
    /\ locals = <<>>
    /\ NoRun
    /\ pc = "idle"

\* agent_executor.run(question), on the executor without or with memory
Run ==
    /\ pc \in {"idle", "finished", "failed"}
    /\ \E q \in Questions :
         \/ /\ self' = prompt
            /\ inputs' = [k \in {K_input} |-> q]
         \/ /\ self' = prompt_with_history
            /\ \E m \in Memories \cup {<<>>} :
                 inputs' = [k \in {K_input, K_history} |->
                              IF k = K_input THEN q ELSE m]
    /\ intermediate_steps' = <<>>
    /\ turns' = <<>>
    /\ tool_calls' = 0
    /\ kwargs' = NoKwargs
    /\ rendered' = NoResult
    /\ llm_output' = <<>>
    /\ result' = NoResult
    /\ pc' = "render"
    /\ UNCHANGED <<sample, locals>>

\* step 1: the input and the previous steps are formatted into the prompt
Render ==
    /\ pc = "render"
    /\ LET kw == [k \in DOMAIN inputs \cup {K_intermediate_steps} |->
                    IF k = K_intermediate_steps THEN intermediate_steps
                    ELSE inputs[k]]
       IN  /\ rendered' = format(self, kw)
           /\ kwargs' = FormatKwargs(self, kw)
    /\ pc' = IF rendered'.type = "str" THEN "llm" ELSE "failed"
    /\ UNCHANGED <<self, llm_output, result, sample, locals, loopVars>>

\* step 1: the model answers the prompt
Generate ==
    /\ pc = "llm"
    /\ llm_output' \in LLMOutputs
    /\ pc' = "parse"
    /\ UNCHANGED <<self, kwargs, rendered, result, sample, locals, loopVars>>

\* mutant: the final turn recorded as a step
ParseOutput_FinishRecorded ==
    /\ pc = "parse"
    /\ result' = parse(llm_output)
    /\ pc' = CASE result'.type = "AgentFinish" -> "finished"
               [] result'.type = "AgentAction" -> "tool"
               [] OTHER -> "failed"
    /\ intermediate_steps' =
         IF result'.type = "AgentFinish"
         THEN Append(intermediate_steps, <<result', <<>>>>)
         ELSE intermediate_steps
    /\ UNCHANGED <<self, kwargs, rendered, llm_output, sample, inputs, turns,
                   tool_calls, locals>>

\* mutant: the model asked again after an error of the parser
ParseOutput_ErrorRetried ==
    /\ pc = "parse"
    /\ result' = parse(llm_output)
    /\ pc' = CASE result'.type = "AgentFinish" -> "finished"
               [] result'.type = "AgentAction" -> "tool"
               [] OTHER -> "llm"
    /\ UNCHANGED <<self, kwargs, rendered, llm_output, sample, locals, loopVars>>

\* steps 1 and 2: the output parser decides; an AgentFinish ends the run,
\* an error of the parser ends it too
ParseOutput ==
    /\ pc = "parse"
    /\ result' = parse(llm_output)
    /\ pc' = CASE result'.type = "AgentFinish" -> "finished"
               [] result'.type = "AgentAction" -> "tool"
               [] OTHER -> "failed"
    /\ UNCHANGED <<self, kwargs, rendered, llm_output, sample, locals, loopVars>>

\* steps 3 and 4: the AgentAction is used to call a tool, and the action
\* and the observation are passed back
CallTool ==
    /\ pc = "tool"
    /\ Len(intermediate_steps) < MaxSteps
    /\ \E observation \in Observations :
         /\ intermediate_steps' = Append(intermediate_steps, <<result, observation>>)
         /\ turns' = Append(turns, [text |-> llm_output, observation |-> observation])
    /\ tool_calls' = tool_calls + 1
    /\ pc' = "render"
    /\ UNCHANGED <<self, kwargs, rendered, llm_output, result, sample, inputs,
                   locals>>

Next == Run \/ Render \/ Generate \/ ParseOutput \/ CallTool

Spec == Init /\ [][Next]_vars

(***************************************************************************)
(* Several runs that share the prompt object and the parser.  Each run     *)
(* calls format with its own history and then parse with its own text, and *)
(* the statements of the calls interleave.  A call of format works on the  *)
(* dict its call made of the keyword arguments and on its local thoughts;  *)
(* its local intermediate_steps is the list of the run; self is read.      *)
(***************************************************************************)
Runs == 1..MaxRuns

\* a run history of two steps
TwoSteps ==
    LET text == PairText([num |-> <<" ","2">>, name |-> <<"L","o","o","k","u","p">>,
                          value |-> <<"h","e","l","l","o"," ","w","o","r","l","d">>,
                          quoted |-> TRUE])
    IN  OneStep \o << <<parse(text), <<"n","o"," ","r","e","s","u","l","t">>>> >>

Histories == { <<>>, OneStep, TwoSteps }

\* the texts the model answers the runs with
SharedTexts ==
    { PairText([num |-> <<>>, name |-> <<"S","e","a","r","c","h">>,
                value |-> <<"f","o","o">>, quoted |-> FALSE]),
      <<"I"," ","a","m"," ","t","h","i","n","k","i","n","g">> }

\* kw[key] = val
With(kw, key, val) ==
    [k \in DOMAIN kw \cup {key} |-> IF k = key THEN val ELSE kw[k]]

InitShared ==
    /\ self \in {prompt, prompt_with_history}
    /\ \E q \in Questions, m \in Memories :
         inputs = [r \in Runs |->
                     [k \in (IF self = prompt THEN {K_input} ELSE {K_input, K_history})
                        |-> IF k = K_input THEN q ELSE m]]
    /\ intermediate_steps \in [Runs -> Histories]
    /\ llm_output \in [Runs -> SharedTexts]
    /\ kwargs = [r \in Runs |->
                   With(inputs[r], K_intermediate_steps, intermediate_steps[r])]
    /\ rendered = [r \in Runs |-> NoResult]
    /\ result = [r \in Runs |-> NoResult]
    /\ locals = [r \in Runs |-> [thoughts |-> <<>>, k |-> 0]]
    /\ turns = <<>>
    /\ tool_calls = 0
    /\ pc = [r \in Runs |-> "pop"]
    /\ sample = [family |-> "shared", self |-> self, inputs |-> inputs,
                 history |-> intermediate_steps]

\* intermediate_steps = kwargs.pop("intermediate_steps"); thoughts = ""
FormatPop(r) ==
    /\ pc[r] = "pop"
    /\ kwargs' = [kwargs EXCEPT ![r] = Without(@, {K_intermediate_steps})]
    /\ locals' = [locals EXCEPT ![r] = [thoughts |-> <<>>, k |-> 1]]
    /\ pc' = [pc EXCEPT ![r] = "for"]
    /\ UNCHANGED <<self, rendered, llm_output, result, sample, loopVars>>

\* mutant: thoughts kept in one place for all the calls
FormatAppend_SharedThoughts(r) ==
    /\ pc[r] = "for"
    /\ locals[r].k <= Len(intermediate_steps[r])
    /\ LET pair == intermediate_steps[r][locals[r].k]
           added == pair[1].log \o ObservationToken \o pair[2] \o ThoughtToken
       IN  locals' = [q \in Runs |->
                        [thoughts |-> locals[q].thoughts \o added,
                         k |-> IF q = r THEN locals[q].k + 1 ELSE locals[q].k]]
    /\ UNCHANGED <<self, kwargs, rendered, llm_output, result, sample, loopVars, pc>>

\* one turn of the for loop: thoughts += action.log, thoughts += the observation
FormatAppend(r) ==
    /\ pc[r] = "for"
    /\ locals[r].k <= Len(intermediate_steps[r])
    /\ LET pair == intermediate_steps[r][locals[r].k]
           added == pair[1].log \o ObservationToken \o pair[2] \o ThoughtToken
       IN  locals' = [locals EXCEPT ![r] = [thoughts |-> @.thoughts \o added,
                                            k |-> @.k + 1]]
    /\ UNCHANGED <<self, kwargs, rendered, llm_output, result, sample, loopVars, pc>>

\* the loop is over: kwargs["agent_scratchpad"] = thoughts
FormatScratchpad(r) ==
    /\ pc[r] = "for"
    /\ locals[r].k > Len(intermediate_steps[r])
    /\ kwargs' = [kwargs EXCEPT ![r] = With(@, K_agent_scratchpad, locals[r].thoughts)]
    /\ pc' = [pc EXCEPT ![r] = "tools"]
    /\ UNCHANGED <<self, rendered, llm_output, result, sample, locals, loopVars>>

\* kwargs["tools"] = ...
FormatTools(r) ==
    /\ pc[r] = "tools"
    /\ kwargs' = [kwargs EXCEPT ![r] = With(@, K_tools, ToolsListing(self.tools))]
    /\ pc' = [pc EXCEPT ![r] = "tool_names"]
    /\ UNCHANGED <<self, rendered, llm_output, result, sample, locals, loopVars>>

\* kwargs["tool_names"] = ...
FormatToolNames(r) ==
    /\ pc[r] = "tool_names"
    /\ kwargs' = [kwargs EXCEPT ![r] = With(@, K_tool_names, ToolNamesListing(self.tools))]
    /\ pc' = [pc EXCEPT ![r] = "return"]
    /\ UNCHANGED <<self, rendered, llm_output, result, sample, locals, loopVars>>

\* return self.template.format(**kwargs)
FormatReturn(r) ==
    /\ pc[r] = "return"
    /\ rendered' = [rendered EXCEPT ![r] = str_format(self.template, 1, kwargs[r])]
    /\ pc' = [pc EXCEPT ![r] = "parse"]
    /\ UNCHANGED <<self, kwargs, llm_output, result, sample, locals, loopVars>>

\* the run's call of parse on the text the model answered with
ParseCall(r) ==
    /\ pc[r] = "parse"
    /\ result' = [result EXCEPT ![r] = parse(llm_output[r])]
    /\ pc' = [pc EXCEPT ![r] = "done"]
    /\ UNCHANGED <<self, kwargs, rendered, llm_output, sample, locals, loopVars>>

NextShared ==
    \E r \in Runs :
        \/ FormatPop(r)
        \/ FormatAppend(r)
        \/ FormatScratchpad(r)
        \/ FormatTools(r)
        \/ FormatToolNames(r)
        \/ FormatReturn(r)
        \/ ParseCall(r)

SpecShared == InitShared /\ [][NextShared]_vars

(***************************************************************************)
(* Properties of the parser.                                               *)
(***************************************************************************)
\* the places where lit occurs in s
Occurrences(s, lit) ==
    { i \in 1..(Len(s) - Len(lit) + 1) : SubSeq(s, i, i + Len(lit) - 1) = lit }

HasMarker(s) == Occurrences(s, FinalAnswerMarker) # {}

\* s[a..b-1] is spaces, then digits, then spaces
IsNumberSuffix(s, a, b) ==
    \E p \in a..b : \E q \in p..b :
        /\ \A k \in a..(p - 1) : s[k] \in Whitespace
        /\ \A k \in p..(q - 1) : s[k] \in Digits
        /\ \A k \in q..(b - 1) : s[k] \in Whitespace

\* some part of s has the shape of the action pattern
HasPattern(s) ==
    \E i \in Occurrences(s, ActionToken) :
      \E c \in (i + 6)..Len(s) :
        /\ s[c] = ":"
        /\ IsNumberSuffix(s, i + 6, c)
        /\ \E j \in Occurrences(s, <<"\n">> \o ActionToken) :
             /\ j > c
             /\ \E k \in Occurrences(s, InputToken) :
                  /\ k >= j + 7
                  /\ IsNumberSuffix(s, j + 7, k)
                  /\ \E f \in (k + 5)..Len(s) :
                       s[f] = ":" /\ IsNumberSuffix(s, k + 5, f)

\* t is s without its leading and trailing whitespace
IsTrimOf(t, s) ==
    /\ t = <<>> \/ (t[1] \notin Whitespace /\ t[Len(t)] \notin Whitespace)
    /\ \E a \in 1..(Len(s) + 1) :
         /\ a + Len(t) - 1 <= Len(s)
         /\ t = SubSeq(s, a, a + Len(t) - 1)
         /\ \A k \in 1..(a - 1) : s[k] \in Whitespace
         /\ \A k \in (a + Len(t))..Len(s) : s[k] \in Whitespace

Max(S) == CHOOSE x \in S : \A y \in S : y <= x

\* the text after the last occurrence of the marker
AfterLastMarker(s) ==
    SubSeq(s, Max(Occurrences(s, FinalAnswerMarker)) + Len(FinalAnswerMarker), Len(s))

Parsed == pc = "parsed"

\* a parsed sample of action pairs that holds no finish marker
PairsNoMarker ==
    /\ Parsed
    /\ sample.family = "pairs"
    /\ sample.prefix # MarkerPrefix
    /\ sample.suffix # MarkerSuffix

\* C1: a text that contains "Final Answer:" parses to an AgentFinish, never
\* to an AgentAction or an error, whatever action pairs it also holds.
C1_FinishWins ==
    (Parsed /\ HasMarker(llm_output)) => result.type = "AgentFinish"

\* a parsed text with an action pair between two finish markers
C1_Witness ==
    /\ Parsed
    /\ sample.family = "pairs"
    /\ sample.prefix = MarkerPrefix
    /\ sample.suffix = MarkerSuffix
    /\ HasPattern(llm_output)
    /\ result.type = "AgentFinish"

\* C2: the output of an AgentFinish is the text after the last marker with
\* its leading and trailing whitespace removed, and its log is the whole text.
C2_FinalOutput ==
    (Parsed /\ result.type = "AgentFinish") =>
        /\ result.log = llm_output
        /\ IsTrimOf(result.return_values.output, AfterLastMarker(llm_output))

\* a text with two markers whose last answer is " 42\n"
C2_Witness ==
    /\ Parsed
    /\ result.type = "AgentFinish"
    /\ Cardinality(Occurrences(llm_output, FinalAnswerMarker)) = 2
    /\ AfterLastMarker(llm_output) = <<" ","4","2","\n">>
    /\ result.return_values.output = <<"4","2">>

\* C3 (as claimed): a quoted action input comes back without its quotes,
\* also when a newline follows the closing quote.
C3_QuotesStripped ==
    (PairsNoMarker /\ Len(sample.pairs) = 1 /\ sample.pairs[1].quoted) =>
        /\ result.type = "AgentAction"
        /\ result.tool = sample.pairs[1].name
        /\ result.tool_input = sample.pairs[1].value

\* C4: "Action <digits>: <name>\nAction Input <digits>: <input>" parses to
\* the name and the input, as the form without numbers does.
C4_Numbered ==
    (PairsNoMarker /\ Len(sample.pairs) = 1 /\ sample.suffix = <<>>) =>
        LET p == sample.pairs[1]
            plain == parse(sample.prefix \o PairText([p EXCEPT !.num = <<>>]))
        IN  /\ result.type = "AgentAction"
            /\ result.tool = p.name
            /\ result.tool_input = p.value
            /\ plain.type = "AgentAction"
            /\ plain.tool = result.tool
            /\ plain.tool_input = result.tool_input

\* "Action 2: Search\nAction Input 2: foo" parsed to Search and foo
C4_Witness ==
    /\ Parsed
    /\ llm_output = PairText([num |-> <<" ","2">>, name |-> <<"S","e","a","r","c","h">>,
                              value |-> <<"f","o","o">>, quoted |-> FALSE])
    /\ result.type = "AgentAction"
    /\ result.tool = <<"S","e","a","r","c","h">>
    /\ result.tool_input = <<"f","o","o">>

\* C5: a text with neither the marker nor the action pattern makes parse
\* raise an error that carries the text.
C5_ParseError ==
    (Parsed /\ ~HasMarker(llm_output) /\ ~HasPattern(llm_output)) =>
        /\ result.type = "ValueError"
        /\ Len(result.message) >= Len(CouldNotParse) + Len(llm_output)
        /\ SubSeq(result.message, Len(CouldNotParse) + 1,
                  Len(CouldNotParse) + Len(llm_output)) = llm_output

\* a text that starts an action but has no action input line
C5_Witness ==
    /\ Parsed
    /\ llm_output = ActionToken \o <<":">> \o <<"x">> \o <<"\n">>
    /\ result.type = "ValueError"

\* C10 (as claimed): of several action pairs only the first is extracted,
\* and the tool input holds no text of a later pair.
C10_FirstPairOnly ==
    (PairsNoMarker /\ Len(sample.pairs) >= 2) =>
        /\ result.type = "AgentAction"
        /\ result.tool = sample.pairs[1].name
        /\ result.tool_input = sample.pairs[1].value
        /\ Occurrences(result.tool_input, ActionToken) = {}

\* C10 (amended): of several action pairs one AgentAction is returned, its
\* tool the first pair's name; its tool input starts at the first pair's
\* input and runs to the end of the text, later pairs included, less one
\* leading quote and one trailing quote.
C10_FirstPairToEnd ==
    (PairsNoMarker /\ Len(sample.pairs) >= 2) =>
        LET first == sample.pairs[1]
            last == sample.pairs[Len(sample.pairs)]
            rest == (IF first.quoted THEN Quoted(first.value) ELSE first.value)
                    \o <<"\n">> \o PairsText(Tail(sample.pairs)) \o sample.suffix
        IN  /\ result.type = "AgentAction"
            /\ result.tool = first.name
            /\ result.tool_input =
                 SubSeq(rest, IF first.quoted THEN 2 ELSE 1,
                        IF sample.suffix = <<>> /\ last.quoted
                        THEN Len(rest) - 1 ELSE Len(rest))

\* two pairs parsed: the input holds the second pair's Action line
C10_Witness ==
    /\ PairsNoMarker
    /\ Len(sample.pairs) = 2
    /\ result.type = "AgentAction"
    /\ result.tool = sample.pairs[1].name
    /\ Occurrences(result.tool_input, ActionToken \o <<":"," ">> \o sample.pairs[2].name) # {}

\* the places where an Action header (Action, number suffix, colon) starts
ActionHeaders(s) ==
    { i \in Occurrences(s, ActionToken) :
        \E c \in (i + 6)..Len(s) : s[c] = ":" /\ IsNumberSuffix(s, i + 6, c) }

\* the text between the colon of the first Action header and the next newline
FirstActionLine(s) ==
    LET i == Min(ActionHeaders(s))
        c == IndexOf(s, ":", i)
        nl == IndexOf(s, "\n", c + 1)
    IN  SubSeq(s, c + 1, IF nl = 0 THEN Len(s) ELSE nl - 1)

\* C11 (as claimed): the tool of an AgentAction is the trimmed text between
\* the colon of the first Action header and the next newline, and holds no
\* newline, also when "Action:" occurs in the Thought text.
C11_ToolNameOneLine ==
    (Parsed /\ result.type = "AgentAction") =>
        /\ "\n" \notin Chars(result.tool)
        /\ IsTrimOf(result.tool, FirstActionLine(llm_output))

\* the input the pattern captures from a sample of the input family: the
\* text after the header's colon, less its leading whitespace
Captured(sm) ==
    LET rest == InputText(sm)
        from == IF \A k \in 1..Len(rest) : rest[k] \in Whitespace THEN Len(rest) + 1
                ELSE Min({ k \in 1..Len(rest) : rest[k] \notin Whitespace })
    IN  SubSeq(rest, from, Len(rest))

\* t is s less spaces and then double quotes at its front, and less double
\* quotes and then spaces at its back, as many of each as there are
IsStripOf(t, s) ==
    \E a \in 1..(Len(s) + 1) : \E b \in (a - 1)..Len(s) :
      \E j \in 1..a : \E k \in b..Len(s) :
        /\ t = SubSeq(s, a, b)
        /\ \A i \in 1..(j - 1) : s[i] = " "
        /\ \A i \in j..(a - 1) : s[i] = "\""
        /\ \A i \in (b + 1)..k : s[i] = "\""
        /\ \A i \in (k + 1)..Len(s) : s[i] = " "
        /\ t # <<>> =>
             /\ t[1] # "\"" /\ t[Len(t)] # "\""
             /\ j = a => t[1] # " "
             /\ k = b => t[Len(t)] # " "

InputParsed == Parsed /\ sample.family = "input"

\* C12 (as claimed): the tool input is the captured input less its leading
\* spaces and less one double quote at each end that has one; a second
\* layer of quotes and trailing spaces stay.
C12_OneLayer ==
    InputParsed =>
        /\ result.type = "AgentAction"
        /\ result.tool_input = ToolInput_OneLayer(Captured(sample))

\* C12 (amended): the tool input is the captured input less the spaces at
\* both its ends and then less every double quote at both its ends, all
\* layers; what lies between is as captured, and a quote that a newline
\* follows is not at the end.
C12_AllLayers ==
    InputParsed =>
        /\ result.type = "AgentAction"
        /\ IsStripOf(result.tool_input, Captured(sample))
        /\ (sample.body = <<"f","o","o">> /\ sample.trail # <<"\n">>)
             => result.tool_input = sample.body
        /\ (sample.body = <<"f","o","o">> /\ sample.trail = <<"\n">>)
             => result.tool_input
                  = sample.body \o Repeat("\"", sample.close) \o <<"\n">>

\* an input in two layers of quotes with spaces after it, parsed to the bare input
C12_Witness ==
    /\ InputParsed
    /\ sample.open = 2
    /\ sample.close = 2
    /\ sample.trail = <<" "," ">>
    /\ sample.body = <<"f","o","o">>
    /\ result.type = "AgentAction"
    /\ result.tool_input = <<"f","o","o">>

(***************************************************************************)
(* Properties of the renderer.                                             *)
(***************************************************************************)
Formatted == pc = "formatted"

\* the names between braces in the template t
Fields(t) ==
    { SubSeq(t, open + 1, IndexOf(t, "}", open) - 1) :
        open \in { i \in 1..Len(t) : t[i] = "{" } }

\* the names format can substitute, given the keyword arguments kw
SubstitutionSet(kw) ==
    (DOMAIN kw \ {K_intermediate_steps})
    \cup {K_agent_scratchpad, K_tools, K_tool_names}

\* the scratchpad the turns of a run should give
ExpectedScratchpad(ts) ==
    Concat([k \in 1..Len(ts) |->
              ts[k].text \o ObservationToken \o ts[k].observation \o ThoughtToken])

\* s ends with t
EndsWith(s, t) ==
    Len(t) <= Len(s) /\ SubSeq(s, Len(s) - Len(t) + 1, Len(s)) = t

\* C6: the scratchpad is, pair by pair in history order, the text the
\* parser was given, "\nObservation: ", the observation, "\nThought: ";
\* it is empty for an empty history.
C6_Scratchpad ==
    (pc \in {"llm", "parse", "tool", "finished"}) =>
        /\ Len(intermediate_steps) = Len(turns)
        /\ \A k \in 1..Len(turns) :
             /\ intermediate_steps[k][1].type = "AgentAction"
             /\ intermediate_steps[k][1].log = turns[k].text
             /\ intermediate_steps[k][2] = turns[k].observation
        /\ kwargs[K_agent_scratchpad] = ExpectedScratchpad(turns)
        /\ turns = <<>> => kwargs[K_agent_scratchpad] = <<>>
        /\ rendered.type = "str"
        /\ EndsWith(rendered.value, ExpectedScratchpad(turns))

\* a prompt rendered from a history of two different steps
C6_Witness ==
    /\ pc = "llm"
    /\ Len(turns) = 2
    /\ turns[1].text # turns[2].text
    /\ turns[1].observation # turns[2].observation
    /\ kwargs[K_agent_scratchpad] = ExpectedScratchpad(turns)

\* C7: the tool listing has one "<name>: <description>" line per tool and
\* the tool-name listing has the names joined by ", ", both in the order of
\* the tool sequence, and the prompt holds them where the template asks.
C7_ToolListing ==
    (Formatted /\ K_intermediate_steps \in DOMAIN sample.kwargs) =>
        LET n == Len(self.tools)
            lines == [i \in 1..n |->
                        self.tools[i].name \o <<":"," ">> \o self.tools[i].description]
            names == [i \in 1..n |-> self.tools[i].name]
            listing == kwargs[K_tools]
            name_listing == kwargs[K_tool_names]
        IN  /\ IF n = 0 THEN listing = <<>> /\ name_listing = <<>>
               ELSE /\ Split(listing, <<"\n">>) = lines
                    /\ Split(name_listing, <<","," ">>) = names
            /\ self.template = Field(K_tools) => rendered = Str(listing)
            /\ self.template = Field(K_tool_names) => rendered = Str(name_listing)
            /\ self.template = Field(K_tool_names) \o Field(K_tools)
                 => rendered = Str(name_listing \o listing)
            /\ (self.template = template /\ rendered.type = "str") =>
                 /\ Occurrences(rendered.value,
                        <<":","\n","\n">> \o listing \o <<"\n","\n","U","s","e">>) # {}
                 /\ Occurrences(rendered.value,
                        <<"[">> \o name_listing \o <<"]","\n">>) # {}

\* the notebook's template rendered with two different tools
C7_Witness ==
    /\ Formatted
    /\ self.template = template
    /\ Len(self.tools) = 2
    /\ self.tools[1] # self.tools[2]
    /\ self.tools[1] = SearchTool
    /\ rendered.type = "str"
    /\ kwargs[K_tool_names]
         = <<"S","e","a","r","c","h",","," ","L","o","o","k","u","p">>

\* the template names a field that format cannot substitute
MissingField ==
    \E f \in Fields(self.template) : f \notin SubstitutionSet(sample.kwargs)

Unparseable == pc = "parse" /\ ~HasMarker(llm_output) /\ ~HasPattern(llm_output)

FirstPrompt ==
    format(self, With(inputs, K_intermediate_steps, <<>>))

\* what the newest pair of the history adds to the scratchpad
NewestPairText ==
    LET pair == intermediate_steps[Len(intermediate_steps)]
    IN  pair[1].log \o ObservationToken \o pair[2] \o ThoughtToken

\* C16: in a run on one of the notebook's templates, the prompt rendered
\* after a tool call is the prompt rendered before it followed by the text
\* of the new pair, its observation and the Thought cue; every prompt of the
\* run starts with the run's first prompt.
C16_PromptGrows ==
    [][ /\ (pc = "render" /\ tool_calls > 0) =>
             /\ rendered.type = "str"
             /\ rendered'.type = "str"
             /\ rendered'.value = rendered.value \o NewestPairText
             /\ Len(rendered'.value) > Len(rendered.value)
             /\ SubSeq(rendered'.value, 1, Len(rendered.value)) = rendered.value
        /\ (pc = "render" /\ tool_calls = 0) => rendered' = FirstPrompt
        /\ pc \in {"llm", "parse", "tool"} =>
             /\ FirstPrompt.type = "str"
             /\ StartsWithAt(rendered.value, 1, FirstPrompt.value)
      ]_vars

\* the third prompt of a run with memory: the first prompt and two pairs
C16_Witness ==
    /\ pc = "llm"
    /\ self = prompt_with_history
    /\ tool_calls = 2
    /\ turns[1] # turns[2]
    /\ rendered.type = "str"
    /\ rendered.value = FirstPrompt.value \o ExpectedScratchpad(turns)

(***************************************************************************)
(* Properties of runs that share the prompt object and the parser.         *)
(***************************************************************************)
\* the keyword arguments run r called format with
GivenKwargs(r) == With(sample.inputs[r], K_intermediate_steps, sample.history[r])

\* C15: however the calls of the runs interleave, a finished call of format
\* has returned what format returns on the same arguments alone, a finished
\* call of parse what parse returns on the same text alone, and the shared
\* prompt object and every run's history are as they were given.
C15_Isolated ==
    sample.family = "shared" =>
        /\ self = sample.self
        /\ intermediate_steps = sample.history
        /\ \A r \in Runs :
             /\ pc[r] \in {"parse", "done"} =>
                  /\ rendered[r] = format(sample.self, GivenKwargs(r))
                  /\ rendered[r].type = "str"
                  /\ EndsWith(rendered[r].value,
                              Thoughts(sample.history[r], <<>>))
             /\ pc[r] = "done" => result[r] = parse(llm_output[r])
             /\ \A q \in Runs :
                  (pc[r] = "done" /\ pc[q] = "done") =>
                      /\ sample.history[r] = sample.history[q]
                            => rendered[r] = rendered[q]
                      /\ llm_output[r] = llm_output[q] => result[r] = result[q]

\* one call has returned its prompt while another, on a different history,
\* is in the middle of its loop
C15_Witness ==
    /\ sample.family = "shared"
    /\ pc[1] = "parse"
    /\ pc[2] = "for"
    /\ locals[2].k = 2
    /\ Len(sample.history[1]) = 1
    /\ Len(sample.history[2]) = 2
    /\ rendered[1] = format(sample.self, GivenKwargs(1))

====
